---------------------------- MODULE Spec2Model ----------------------------
(***************************************************************************)
(* ClariaAI: the transcription session of App (src/unnamed/part_001), the  *)
(* acquisition service (src/services/transcriptionService.ts) and the      *)
(* TranscriptionDisplay component (src/components/TranscriptionDisplay.tsx)*)
(* as one state machine.                                                   *)
(*                                                                         *)
(* Conventions.  A nullable string of the source is a string here, with    *)
(* NULL for null/undefined.  A nullable object is a sequence: <<>> for     *)
(* null and <<v>> for the object v.  Times are integers in milliseconds.   *)
(* A text the remote capability returns is a sequence of tokens (fence,    *)
(* word, white space, JSON document); its JavaScript string is the         *)
(* concatenation of the tokens' characters.                                *)
(***************************************************************************)
EXTENDS Integers, Sequences, FiniteSets, TLC

(***************************************************************************)
(* Bounds of the model.                                                    *)
(***************************************************************************)
\* submissions (files or links that reach a handler of App) in one run
MaxSubmissions == 2
\* timer ticks the acquisition of one session may last
MaxTicks == 16
\* remote requests of one kind (summary, translation, refinement, chat) one
\* mounted TranscriptionDisplay may issue
MaxDerived == 2
\* notes one mounted TranscriptionDisplay may hold
MaxNotes == 1

(***************************************************************************)
(* Program constants.                                                      *)
(***************************************************************************)
\* transcribeUrl: const maxRetries = 2
maxRetries == 2
\* transcribeUrl: if (fullText.length < 50)
MinChars == 50
\* App progress effect: Math.min(95, ...), if (prev >= 95)
ProgressCap == 95
\* handleFileSelect: Math.max(15, ...)
MinEstimate == 15
\* handleFileSelect: Math.ceil(sizeMB * 3)
SecondsPerMB == 3
\* handleUrlSelect: const est = 20
UrlEstimate == 20
\* handleFileSelect: selectedFile.size / (1024 * 1024)
BytesPerMB == 1048576

NULL == "<null>"

IDLE == "idle"
UPLOADING == "uploading"
PROCESSING == "processing"
COMPLETED == "completed"
ERROR == "error"
TranscriptionStatus == {IDLE, UPLOADING, PROCESSING, COMPLETED, ERROR}

Max(a, b) == IF a >= b THEN a ELSE b
Min(a, b) == IF a <= b THEN a ELSE b
\* Math.ceil(n / d) for n >= 0, d > 0
CeilDiv(n, d) == (n + d - 1) \div d

(***************************************************************************)
(* Texts and JSON documents of the remote capability.                      *)
(***************************************************************************)
T24 == "Ola pessoal, hoje eu vou"
T25 == "mostrar como se faz isto."

Seg(s, e, t) == [start |-> s, end |-> e, text |-> t]

\* A parsed JSON value: null, or an object read through its fields.  An
\* absent field and a falsy one ("" or no array) are read alike by every
\* use in the service, and are the same here.
Doc(err, segs, ttl, desc, cat) ==
    [isNull |-> FALSE, error |-> err, segments |-> segs, title |-> ttl,
     description |-> desc, category |-> cat]
DocNull ==
    [isNull |-> TRUE, error |-> "", segments |-> <<>>, title |-> "",
     description |-> "", category |-> ""]
DocEmptyObject == Doc("", <<>>, "", "", "")

SegsOk == <<Seg(0, 4000, T24), Seg(4000, 9000, T25)>>
SegsShort == <<Seg(0, 4000, T24), Seg(4000, 8000, T24)>>
\* segments as the remote capability may send them: an end before its start
SegsBackwards == <<Seg(9000, 4000, T24), Seg(4000, 9000, T25)>>

DocOk == Doc("", SegsOk, "Aula", "Uma aula.", "Aula")
DocShort == Doc("", SegsShort, "Aula", "", "Aula")
DocBackwards == Doc("", SegsBackwards, "Aula", "", "Aula")
DocNoSegments == Doc("", <<>>, "Aula", "", "Geral")
DocMissing == Doc("content_missing", <<>>, "", "", "")
DocMissingWithText == Doc("content_missing", SegsOk, "Aula", "", "")

\* slip: the texts are joined without a separator
JoinNoSeparator(texts) ==
    LET glued[i \in 0..Len(texts)] ==
            IF i = 0 THEN "" ELSE glued[i - 1] \o texts[i]
    IN  glued[Len(texts)]

RECURSIVE Join(_)
\* texts.join(' ')
Join(texts) ==
    IF Len(texts) = 0 THEN ""
    ELSE IF Len(texts) = 1 THEN texts[1]
    ELSE texts[1] \o " " \o Join(Tail(texts))

\* segments.map(seg => seg.text)
Texts(segs) == [i \in 1..Len(segs) |-> segs[i].text]

(***************************************************************************)
(* Remote texts as token sequences.                                        *)
(***************************************************************************)
\* seconds of a JSON number, from milliseconds
Num(ms) ==
    LET whole == ms \div 1000
        frac == ms % 1000
    IN  IF frac = 0 THEN ToString(whole)
        ELSE ToString(whole) \o "."
             \o (IF frac < 100 THEN "0" ELSE "")
             \o (IF frac < 10 THEN "0" ELSE "") \o ToString(frac)

Quote(str) == "\"" \o str \o "\""

RECURSIVE StringifySegs(_)
StringifySegs(segs) ==
    IF Len(segs) = 0 THEN ""
    ELSE "{\"start\":" \o Num(segs[1].start) \o ",\"end\":" \o Num(segs[1].end)
         \o ",\"text\":" \o Quote(segs[1].text) \o "}"
         \o (IF Len(segs) > 1 THEN "," ELSE "") \o StringifySegs(Tail(segs))

\* the JSON text of a document (absent fields are left out)
Stringify(doc) ==
    IF doc.isNull THEN "null"
    ELSE "{\"segments\":[" \o StringifySegs(doc.segments) \o "]"
         \o (IF doc.error # "" THEN ",\"error\":" \o Quote(doc.error) ELSE "")
         \o (IF doc.title # "" THEN ",\"title\":" \o Quote(doc.title) ELSE "")
         \o (IF doc.description # ""
             THEN ",\"description\":" \o Quote(doc.description) ELSE "")
         \o (IF doc.category # ""
             THEN ",\"category\":" \o Quote(doc.category) ELSE "")
         \o "}"

\* the three backquotes of a code fence, written as three apostrophes (a
\* TLA+ string holds no backquote)
Fence == [kind |-> "fence", chars |-> "'''", doc |-> DocNull]
WordJson == [kind |-> "word", chars |-> "json", doc |-> DocNull]
Prose == [kind |-> "word", chars |-> "Desculpe, nao consegui.", doc |-> DocNull]
NewLine == [kind |-> "ws", chars |-> "\n", doc |-> DocNull]
Json(doc) == [kind |-> "json", chars |-> Stringify(doc), doc |-> doc]

\* the plain JSON text of doc, and the same text in a json code fence
Plain(doc) == <<Json(doc)>>
Fenced(doc) == <<Fence, WordJson, NewLine, Json(doc), NewLine, Fence>>

RECURSIVE Chars(_)
\* the JavaScript string of a text
Chars(text) == IF Len(text) = 0 THEN "" ELSE text[1].chars \o Chars(Tail(text))

RECURSIVE TrimStart(_)
TrimStart(text) ==
    IF Len(text) > 0 /\ text[1].kind = "ws" THEN TrimStart(Tail(text)) ELSE text

RECURSIVE TrimEnd(_)
TrimEnd(text) ==
    IF Len(text) > 0 /\ text[Len(text)].kind = "ws"
    THEN TrimEnd(SubSeq(text, 1, Len(text) - 1)) ELSE text

\* text.trim()
Trim(text) == TrimEnd(TrimStart(text))

\* the second replace of cleanJson: a closing fence, and the white space
\* before it, removed from the end
DropClosingFence(text) ==
    IF Len(text) > 0 /\ text[Len(text)].kind = "fence"
    THEN TrimEnd(SubSeq(text, 1, Len(text) - 1)) ELSE text

cleanJson(text) ==
    IF Len(text) = 0 THEN Plain(DocEmptyObject)
    ELSE LET cleaned == Trim(text)
         IN  IF Len(cleaned) >= 2 /\ cleaned[1].kind = "fence"
                /\ cleaned[2] = WordJson
             THEN DropClosingFence(TrimStart(SubSeq(cleaned, 3, Len(cleaned))))
             ELSE IF Len(cleaned) >= 1 /\ cleaned[1].kind = "fence"
             THEN DropClosingFence(TrimStart(Tail(cleaned)))
             ELSE cleaned

\* JSON.parse: one JSON document, white space around it allowed; anything
\* else is a SyntaxError (ok = FALSE)
JSONparse(text) ==
    LET t == Trim(text)
    IN  IF Len(t) = 1 /\ t[1].kind = "json"
        THEN [ok |-> TRUE, doc |-> t[1].doc]
        ELSE [ok |-> FALSE, doc |-> DocNull]

(***************************************************************************)
(* Inputs of the user and answers of the remote capability.                *)
(***************************************************************************)
\* A file: its extension as validateFile computes it, whether its MIME type
\* starts with audio/, and its size in bytes.
File(ext, audio, size) == [ext |-> ext, audioType |-> audio, size |-> size]
Files ==
    { File(".mp3", FALSE, 5 * BytesPerMB),
      File(".wav", TRUE, 10 * BytesPerMB),
      File(".ogg", TRUE, 5 * BytesPerMB + 1),
      File(".txt", FALSE, BytesPerMB) }

\* A link: its host, the path before the identifier, and the number of
\* identifier characters (none of # & ? /) that follow.
Url(host, path, idLen) == [host |-> host, path |-> path, idLen |-> idLen]
Urls ==
    { Url("youtu.be", "/", 11),
      Url("youtube.com", "/watch?v=", 11),
      Url("youtube.com", "/watch?v=", 5),
      Url("vimeo.com", "/", 11) }

\* message of a thrown value; "" when it carries none (a ProgressEvent of
\* the FileReader, an Error without message)
RemoteErrors == {"Failed to fetch", ""}

\* what an awaited request ends with: a thrown value, or a response with
\* this text (<<>> when response.text is undefined or empty)
Threw(message) == [threw |-> TRUE, message |-> message, text |-> <<>>]
Text(text) == [threw |-> FALSE, message |-> "", text |-> text]
Answers(texts) ==
    {Threw(m) : m \in RemoteErrors} \cup {Text(t) : t \in texts}

AudioResponses ==
    { <<>>, <<Prose>>, Plain(DocOk), Fenced(DocOk), Plain(DocNoSegments),
      Plain(DocBackwards), Plain(DocNull) }
MetadataResponses ==
    { <<>>, <<Prose>>, Plain(Doc("", <<>>, "Aula de hoje", "Resumo.", "")) }
SearchResponses == { <<>>, <<Prose>> }
FormatResponses ==
    { <<>>, <<Prose>>, Plain(DocOk), Fenced(DocOk), Plain(DocShort),
      Plain(DocMissing), Plain(DocMissingWithText), Plain(DocNoSegments),
      Plain(DocBackwards), Plain(DocNull) }

Reply == [kind |-> "word", chars |-> "Pontos principais.", doc |-> DocNull]
DerivedResponses == { <<>>, <<Reply>> }

\* what the user types into the chat input
Question == [kind |-> "word", chars |-> "Qual a conclusao?", doc |-> DocNull]
ChatInputs == { <<>>, <<NewLine>>, <<Question, NewLine>> }
NoteTexts == {"rever"}

(***************************************************************************)
(* State.                                                                  *)
(***************************************************************************)
VARIABLES
    status,            \* App: status
    file,              \* App: file (<<>> is null)
    result,            \* App: result (<<>> is null)
    progressNum,       \* App: progress, as progress * estimatedSeconds
    estimatedSeconds,  \* App: estimatedSeconds
    remainingSeconds,  \* App: remainingSeconds
    errorMessage,      \* App: errorMessage
    uploadError,       \* FileUpload: error
    calls,             \* the calls of transcribeAudio / transcribeUrl in flight
    lastCall,          \* the call that ended last (history)
    submissions,       \* submissions so far (history)
    display,           \* the mounted TranscriptionDisplay: the id of the call
                       \* whose result mounted it, 0 when none is mounted
    activeTab,         \* TranscriptionDisplay: activeTab
    summaryText,       \* TranscriptionDisplay: summaryText
    translationText,   \* TranscriptionDisplay: translationText
    refinedText,       \* TranscriptionDisplay: refinedText
    notes,             \* TranscriptionDisplay: notes
    chatHistory,       \* TranscriptionDisplay: chatHistory
    isLoadingExtra,    \* TranscriptionDisplay: isLoadingExtra
    isChatLoading,     \* TranscriptionDisplay: isChatLoading
    isRefining,        \* TranscriptionDisplay: isRefining
    showRefineModal,   \* TranscriptionDisplay: showRefineModal
    requests,          \* the derivation requests in flight
    lastDerived,       \* the derivation operation that ended last (history)
    download,          \* the file the display handed to the browser last
                       \* (<<>> when none)
    remoteCalls        \* derivation requests the mounted display issued, by
                       \* kind (history)

appVars ==
    <<status, file, result, progressNum, estimatedSeconds, remainingSeconds,
      errorMessage>>
serviceVars == <<calls, lastCall, submissions>>
viewVars ==
    <<activeTab, summaryText, translationText, refinedText, notes,
      chatHistory, isLoadingExtra, isChatLoading, isRefining,
      showRefineModal>>
displayVars == <<display, viewVars, remoteCalls>>
vars ==
    <<appVars, uploadError, serviceVars, displayVars, requests, lastDerived, download>>

\* A call of the service: where it waits (pc), and what it did so far.
Call(id, kind, pc) ==
    [id |-> id, kind |-> kind, pc |-> pc, outcome |-> "pending",
     attempts |-> 0, searches |-> 0, formats |-> 0, generates |-> 0,
     metadatas |-> 0, yields |-> <<>>, segments |-> <<>>, category |-> "",
     raw |-> <<>>, metadataAnswer |-> Text(<<>>), lastError |-> "",
     message |-> ""]
NoCall == Call(0, "none", "none")

Kinds == {"summary", "translation", "refine", "chat"}

\* How a derivation operation ended: whether its remote request failed,
\* whether the operation threw, and the string it returned otherwise.
Derived(inst, kind, failed, threw, value) ==
    [inst |-> inst, kind |-> kind, failed |-> failed, threw |-> threw,
     value |-> IF threw THEN "" ELSE value]
NoDerived == Derived(0, "none", FALSE, FALSE, "")
NoRemoteCalls == [k \in Kinds |-> 0]

\* the useState initial values of TranscriptionDisplay
InitialViewOf(tab, summary, translation, refined, ns, history, loadingExtra, chatLoading, refining, modal) ==
    /\ tab = "synced"
    /\ summary = NULL
    /\ translation = NULL
    /\ refined = NULL
    /\ ns = <<>>
    /\ history = <<>>
    /\ loadingExtra = FALSE
    /\ chatLoading = FALSE
    /\ refining = FALSE
    /\ modal = FALSE

InitialView ==
    InitialViewOf(activeTab, summaryText, translationText, refinedText, notes,
                  chatHistory, isLoadingExtra, isChatLoading, isRefining,
                  showRefineModal)

\* the state of a display mounted by this step, or none mounted after it
FreshView ==
    InitialViewOf(activeTab', summaryText', translationText', refinedText',
                  notes', chatHistory', isLoadingExtra', isChatLoading',
                  isRefining', showRefineModal')

Init ==
    /\ status = IDLE
    /\ file = <<>>
    /\ result = <<>>
    /\ progressNum = 0
    /\ estimatedSeconds = 0
    /\ remainingSeconds = 0
    /\ errorMessage = NULL
    /\ uploadError = NULL
    /\ calls = {}
    /\ lastCall = NoCall
    /\ submissions = 0
    /\ display = 0
    /\ InitialView
    /\ remoteCalls = NoRemoteCalls
    /\ requests = {}
    /\ lastDerived = NoDerived
    /\ download = <<>>

(***************************************************************************)
(* App.                                                                    *)
(***************************************************************************)
\* The progress effect when the status changes: outside PROCESSING the
\* progress is set to 0 (and the interval is cleared).
\* slip: the effect leaves the progress as the timer left it
ProgressEffectKeep(newStatus, prog) == prog

ProgressEffect(newStatus, prog) == IF newStatus # PROCESSING THEN 0 ELSE prog

\* slip: the updater adds the increment without the cap
NextProgressUncapped(prev, est) == prev + 100

\* The updater of setProgress in the interval callback, on progress * est:
\* if (prev >= 95) return prev; return Math.min(95, prev + 100 / est)
NextProgress(prev, est) ==
    IF prev >= ProgressCap * est THEN prev
    ELSE Min(ProgressCap * est, prev + 100)

\* The interval callback of the progress effect, every 1000 ms while the
\* status is PROCESSING.
Tick ==
    /\ status = PROCESSING
    /\ estimatedSeconds - remainingSeconds < MaxTicks
    /\ remainingSeconds' = Max(0, remainingSeconds - 1)
    /\ progressNum' = NextProgress(progressNum, estimatedSeconds)
    /\ UNCHANGED <<status, file, result, estimatedSeconds, errorMessage,
                   uploadError, serviceVars, displayVars, requests, lastDerived, download>>

\* The controls App renders: FileUpload in IDLE only, the reset buttons in
\* COMPLETED (inside TranscriptionDisplay, when there is a result) and ERROR.
\* slip: FileUpload stays usable while the status is PROCESSING
FileUploadRenderedWhileProcessing == status \in {IDLE, PROCESSING}

FileUploadRendered == status = IDLE

\* slip: a reset button is rendered in every status but IDLE
ResetRenderedWhileProcessing == status # IDLE

ResetRendered ==
    \/ status = COMPLETED /\ result # <<>>
    \/ status = ERROR

\* App renders TranscriptionDisplay when status === COMPLETED && result
DisplayRendered(st, res) == st = COMPLETED /\ res # <<>>

\* slip: the state of the display outlives the display
RenderDisplayKeepsView(id) ==
    /\ display' = IF DisplayRendered(status', result')
                  THEN IF display # 0 THEN display ELSE id
                  ELSE 0
    /\ UNCHANGED <<viewVars, remoteCalls>>

\* The render of App after a handler set status' and result': a display that
\* stays rendered keeps its state, one rendered anew is mounted with the
\* initial state, one no longer rendered is unmounted and its state is gone.
RenderDisplay(id) ==
    IF DisplayRendered(status', result')
    THEN IF display # 0
         THEN UNCHANGED displayVars
         ELSE /\ display' = id
              /\ FreshView
              /\ remoteCalls' = NoRemoteCalls
    ELSE /\ display' = 0
         /\ FreshView
         /\ remoteCalls' = NoRemoteCalls

\* slip: the size in MB times three is rounded down
EstimateForFloor(f) ==
    Max(MinEstimate, (f.size * SecondsPerMB) \div BytesPerMB)

\* Math.max(15, Math.ceil(sizeMB * 3))
EstimateFor(f) ==
    Max(MinEstimate, CeilDiv(f.size * SecondsPerMB, BytesPerMB))

\* handleFileSelect up to its await: transcribeAudio starts to read the file
handleFileSelect(selectedFile) ==
    /\ file' = <<selectedFile>>
    /\ status' = PROCESSING
    /\ errorMessage' = NULL
    /\ estimatedSeconds' = EstimateFor(selectedFile)
    /\ remainingSeconds' = EstimateFor(selectedFile)
    /\ progressNum' = ProgressEffect(PROCESSING, progressNum)
    /\ submissions' = submissions + 1
    /\ calls' = calls \cup {Call(submissions + 1, "audio", "read")}
    /\ UNCHANGED <<result, lastCall, requests, lastDerived, download>>
    /\ RenderDisplay(0)

\* handleUrlSelect up to its await: transcribeUrl starts its first attempt
\* and searchYouTubeContent issues the search request
handleUrlSelect(url) ==
    /\ file' = <<>>
    /\ status' = PROCESSING
    /\ errorMessage' = NULL
    /\ estimatedSeconds' = UrlEstimate
    /\ remainingSeconds' = UrlEstimate
    /\ progressNum' = ProgressEffect(PROCESSING, progressNum)
    /\ submissions' = submissions + 1
    /\ calls' = calls \cup
          {[Call(submissions + 1, "url", "search")
               EXCEPT !.attempts = 1, !.searches = 1]}
    /\ UNCHANGED <<result, lastCall, requests, lastDerived, download>>
    /\ RenderDisplay(0)

\* the rest of handleFileSelect / handleUrlSelect after the awaited call c
\* returned response (ended: the call as it ended)
AcquisitionReturned(c, ended, response) ==
    /\ result' = <<response>>
    /\ status' = COMPLETED
    /\ progressNum' = ProgressEffect(COMPLETED, progressNum)
    /\ calls' = calls \ {c}
    /\ lastCall' = [ended EXCEPT !.outcome = "returned", !.pc = "done"]
    /\ UNCHANGED <<file, estimatedSeconds, remainingSeconds, errorMessage,
                   uploadError, submissions, requests, lastDerived, download>>
    /\ RenderDisplay(c.id)

FileFallbackMessage == "Ocorreu um erro inesperado ao processar o arquivo."
UrlFallbackMessage ==
    "Falha ao buscar o video. Verifique o link ou tente novamente."

\* slip: the message is stored without the fallback
StoredMessageRaw(kind, message) == message

\* error.message || fallback
StoredMessage(kind, message) ==
    IF message # "" THEN message
    ELSE IF kind = "audio" THEN FileFallbackMessage
    ELSE UrlFallbackMessage

\* the catch of handleFileSelect / handleUrlSelect: the awaited call c threw
\* a value with this message
AcquisitionThrew(c, ended, message) ==
    /\ errorMessage' = StoredMessage(c.kind, message)
    /\ status' = ERROR
    /\ progressNum' = ProgressEffect(ERROR, progressNum)
    /\ calls' = calls \ {c}
    /\ lastCall' = [ended EXCEPT !.outcome = "threw", !.pc = "done",
                                 !.message = message]
    /\ UNCHANGED <<file, result, estimatedSeconds, remainingSeconds,
                   uploadError, submissions, requests, lastDerived, download>>
    /\ RenderDisplay(0)

\* slip: the reset returns to Idle and keeps the outcome of the session
handleResetKeepsOutcome ==
    /\ ResetRendered
    /\ file' = <<>>
    /\ status' = IDLE
    /\ progressNum' = 0
    /\ UNCHANGED <<result, errorMessage, estimatedSeconds, remainingSeconds,
                   uploadError, serviceVars, requests, lastDerived, download>>
    /\ RenderDisplay(0)

handleReset ==
    /\ ResetRendered
    /\ file' = <<>>
    /\ result' = <<>>
    /\ status' = IDLE
    /\ errorMessage' = NULL
    /\ progressNum' = 0
    /\ UNCHANGED <<estimatedSeconds, remainingSeconds, uploadError,
                   serviceVars, requests, lastDerived, download>>
    /\ RenderDisplay(0)

(***************************************************************************)
(* FileUpload.                                                             *)
(***************************************************************************)
ALLOWED_EXTENSIONS == {".mp3", ".wav", ".m4a"}

validateFile(f) == f.ext \in ALLOWED_EXTENSIONS \/ f.audioType

\* slip: the identifier is looked for after any host
extractYouTubeIdAnyHost(url) == url.idLen >= 11

\* one of the five patterns matches: the host and path of a pattern, then
\* 11 identifier characters
extractYouTubeId(url) ==
    /\ \/ url.host = "youtu.be" /\ url.path = "/"
       \/ url.host = "youtube.com"
          /\ url.path \in {"/watch?v=", "/embed/", "/v/", "/shorts/"}
    /\ url.idLen >= 11

\* handleChange and handleDrop: a file chosen or dropped
handleChange(f) ==
    /\ FileUploadRendered
    /\ submissions < MaxSubmissions
    /\ IF validateFile(f)
       THEN /\ uploadError' = NULL
            /\ handleFileSelect(f)
       ELSE /\ uploadError' = "Formato nao suportado. Use MP3, WAV ou M4A."
            /\ UNCHANGED <<appVars, serviceVars, displayVars, requests, lastDerived, download>>

handleUrlSubmit(url) ==
    /\ FileUploadRendered
    /\ submissions < MaxSubmissions
    /\ IF extractYouTubeId(url)
       THEN /\ uploadError' = NULL
            /\ handleUrlSelect(url)
       ELSE /\ uploadError' = "Link Invalido."
            /\ UNCHANGED <<appVars, serviceVars, displayVars, requests, lastDerived, download>>

(***************************************************************************)
(* transcriptionService: transcribeAudio.                                  *)
(***************************************************************************)
Transcript(text, category, metadata, segments, confidence) ==
    [text |-> text, category |-> category, metadata |-> metadata,
     segments |-> segments, confidence |-> confidence]

Replace(c, d) == (calls \ {c}) \cup {d}

\* the FileReader loaded the file: the transcription request is issued
AudioFileRead(c) ==
    /\ c.kind = "audio" /\ c.pc = "read"
    /\ calls' = Replace(c, [c EXCEPT !.pc = "generate", !.generates = @ + 1])
    /\ UNCHANGED <<appVars, uploadError, lastCall, submissions, displayVars,
                       requests, lastDerived, download>>

\* reader.onerror: the promise rejects with an event that has no message
AudioFileReadFailed(c) ==
    /\ c.kind = "audio" /\ c.pc = "read"
    /\ AcquisitionThrew(c, c, "")

\* slip: the length test of the raw text is left out
NoDataNever(rawText) == FALSE

\* if (!rawText)
NoData(rawText) == Len(rawText) = 0

\* slip: the catch keeps the initial value, without segments
ParseOrEmpty(rawText) ==
    IF JSONparse(rawText).ok THEN JSONparse(rawText).doc
    ELSE Doc("", <<>>, "", "", "Geral")

\* JSON.parse(rawText), or the single segment holding the raw text
ParseOrFallback(rawText) ==
    IF JSONparse(rawText).ok THEN JSONparse(rawText).doc
    ELSE Doc("", <<Seg(0, 0, Chars(rawText))>>, "", "", "Geral")

\* the transcription request ended: lines 152-166 of transcribeAudio
AudioGenerateDone(c, answer) ==
    /\ c.kind = "audio" /\ c.pc = "generate"
    /\ IF answer.threw
       THEN AcquisitionThrew(c, c, answer.message)
       ELSE IF NoData(answer.text)
       THEN AcquisitionThrew(c, c, "O modelo nao retornou dados.")
       ELSE LET parsedData == ParseOrFallback(answer.text)
            IN  IF parsedData.isNull
                THEN AcquisitionThrew(c, [c EXCEPT !.raw = answer.text],
                                      "Cannot read properties of null")
                ELSE /\ calls' = Replace(c,
                          [c EXCEPT !.pc = "metadata", !.metadatas = @ + 1,
                                    !.raw = answer.text,
                                    !.segments = parsedData.segments,
                                    !.category = parsedData.category])
                     /\ UNCHANGED <<appVars, uploadError, lastCall,
                                    submissions, displayVars, requests, lastDerived, download>>

\* slip: a failed request is read like a response without text
generateMetadataNoFallback(answer) ==
    LET parsed == JSONparse(IF Len(answer.text) = 0
                            THEN Plain(DocEmptyObject) ELSE answer.text)
    IN  IF answer.threw \/ ~parsed.ok \/ parsed.doc.isNull
        THEN [title |-> "Transcricao", description |-> ""]
        ELSE [title |-> IF parsed.doc.title # "" THEN parsed.doc.title
                        ELSE "Transcricao",
              description |-> parsed.doc.description]

\* generateMetadata, from the end of its request
generateMetadata(answer) ==
    LET parsed == JSONparse(IF Len(answer.text) = 0
                            THEN Plain(DocEmptyObject) ELSE answer.text)
    IN  IF answer.threw \/ ~parsed.ok \/ parsed.doc.isNull
        THEN [title |-> "Audio Processado",
              description |-> "Conteudo transcrito."]
        ELSE [title |-> IF parsed.doc.title # "" THEN parsed.doc.title
                        ELSE "Transcricao",
              description |-> parsed.doc.description]

\* the metadata request ended: transcribeAudio returns
AudioMetadataDone(c, answer) ==
    /\ c.kind = "audio" /\ c.pc = "metadata"
    /\ AcquisitionReturned(c, [c EXCEPT !.metadataAnswer = answer],
          Transcript(Join(Texts(c.segments)), c.category,
                     generateMetadata(answer), c.segments, 100))

(***************************************************************************)
(* transcriptionService: transcribeUrl.                                    *)
(***************************************************************************)
FinalUrlMessage ==
    "Nao foi possivel extrair a transcricao exata deste video. Verifique se ele possui legendas publicas ou tente outro link."

\* slip: the error of the last attempt is thrown again
ThrownLastError(lastError) == lastError

\* the value thrown after the loop: a new Error, whatever lastError holds
ThrownAfterRetries(lastError) == FinalUrlMessage

\* slip: the loop bound is off by one
AttemptLeftInclusive(attempts) == attempts <= maxRetries

\* while (attempts < maxRetries), if (attempts < maxRetries)
AttemptLeft(attempts) == attempts < maxRetries

\* slip: the length check is left out
TooShortNever(fullText) == FALSE

\* if (fullText.length < 50)
TooShort(fullText) == Len(fullText) < MinChars

\* What an attempt got from stage 2 (history): the error field, the number of
\* segments and the length of their joined text; NoYield when a stage threw.
Yield(data) ==
    [error |-> data.error, segments |-> Len(data.segments),
     length |-> Len(Join(Texts(data.segments)))]
NoYield == [error |-> "", segments |-> -1, length |-> -1]

\* the catch of an attempt: wait and try again, or leave the loop and throw
\* the final error
UrlAttemptFailed(c, yield, error) ==
    LET failed == [c EXCEPT !.yields = Append(@, yield), !.lastError = error]
    IN  IF AttemptLeft(c.attempts)
        THEN /\ calls' = Replace(c, [failed EXCEPT !.pc = "backoff"])
             /\ UNCHANGED <<appVars, uploadError, lastCall, submissions, displayVars,
                       requests, lastDerived, download>>
        ELSE AcquisitionThrew(c, failed, ThrownAfterRetries(error))

\* searchYouTubeContent ended; formatContentToJson issues its request
UrlSearchDone(c, answer) ==
    /\ c.kind = "url" /\ c.pc = "search"
    /\ IF answer.threw \/ Len(answer.text) = 0
       THEN UrlAttemptFailed(c, NoYield,
               IF answer.threw THEN answer.message
               ELSE "A IA nao retornou texto na busca.")
       ELSE /\ calls' = Replace(c, [c EXCEPT !.pc = "format",
                                             !.formats = @ + 1])
            /\ UNCHANGED <<appVars, uploadError, lastCall, submissions, displayVars,
                       requests, lastDerived, download>>

\* formatContentToJson ended: lines 306-332 of transcribeUrl
UrlFormatDone(c, answer) ==
    /\ c.kind = "url" /\ c.pc = "format"
    /\ IF answer.threw
       THEN UrlAttemptFailed(c, NoYield, answer.message)
       ELSE LET parsed == JSONparse(cleanJson(
                             IF Len(answer.text) = 0
                             THEN Plain(DocEmptyObject) ELSE answer.text))
                data == parsed.doc
                fullText == Join(Texts(data.segments))
            IN  IF ~parsed.ok \/ data.isNull
                THEN UrlAttemptFailed(c, NoYield,
                        IF ~parsed.ok THEN "Unexpected token"
                        ELSE "Cannot read properties of null")
                ELSE IF data.error = "content_missing"
                        \/ Len(data.segments) = 0
                THEN UrlAttemptFailed(c, Yield(data),
                        "Conteudo insuficiente encontrado.")
                ELSE IF TooShort(fullText)
                THEN UrlAttemptFailed(c, Yield(data),
                        "Texto recuperado muito curto.")
                ELSE AcquisitionReturned(c,
                        [c EXCEPT !.yields = Append(@, Yield(data)),
                                  !.segments = data.segments],
                        Transcript(fullText, "YouTube",
                           [title |-> IF data.title # "" THEN data.title
                                      ELSE "Video do YouTube",
                            description |->
                               IF data.description # "" THEN data.description
                               ELSE "Transcricao importada."],
                           data.segments, 90))

\* slip: the wait of the backoff never ends
UrlBackoffStalled(c) ==
    /\ c.kind = "url" /\ c.pc = "backoff"
    /\ UNCHANGED vars

\* the 2500 ms of backoff elapsed: the next attempt issues its search
UrlBackoffElapsed(c) ==
    /\ c.kind = "url" /\ c.pc = "backoff"
    /\ AttemptLeft(c.attempts)
    /\ calls' = Replace(c, [c EXCEPT !.pc = "search", !.attempts = @ + 1,
                                     !.searches = @ + 1])
    /\ UNCHANGED <<appVars, uploadError, lastCall, submissions, displayVars,
                       requests, lastDerived, download>>

(***************************************************************************)
(* TranscriptionDisplay.                                                   *)
(***************************************************************************)
\* transcriptionText: useState(initialTranscription); no handler sets it
transcriptionText == result[1].text

\* a string tested as a condition: null and "" are falsy
Falsy(str) == str = NULL \/ str = ""

\* the tab buttons the component renders (none for 'translation')
TabButtons == {"synced", "transcription", "summary", "chat"}

Request(kind, text) ==
    [inst |-> display, kind |-> kind, text |-> text, history |-> <<>>,
     question |-> "", sent |-> <<>>]

\* the derivation request of this kind is issued: the request is in flight
\* and counted
Issue(request) ==
    /\ remoteCalls[request.kind] < MaxDerived
    /\ requests' = requests \cup {request}
    /\ UNCHANGED <<lastDerived, download>>
    /\ remoteCalls' = [remoteCalls EXCEPT ![request.kind] = @ + 1]

\* if (tab === 'summary' && !summaryText), if (tab === 'translation' && ...)
SummaryWanted(tab) == tab = "summary" /\ Falsy(summaryText)
TranslationWanted(tab) == tab = "translation" /\ Falsy(translationText)

\* handleTabChange up to its await
handleTabChange(tab) ==
    /\ display # 0
    /\ ~isLoadingExtra
    /\ IF isLoadingExtra \/ isChatLoading
       THEN UNCHANGED <<activeTab, isLoadingExtra, requests, lastDerived, download, remoteCalls>>
       ELSE /\ activeTab' = tab
            /\ IF SummaryWanted(tab)
               THEN /\ isLoadingExtra' = TRUE
                    /\ Issue(Request("summary", transcriptionText))
               ELSE IF TranslationWanted(tab)
               THEN /\ isLoadingExtra' = TRUE
                    /\ Issue(Request("translation", transcriptionText))
               ELSE UNCHANGED <<isLoadingExtra, requests, lastDerived, download, remoteCalls>>
    /\ UNCHANGED <<appVars, uploadError, serviceVars, display, summaryText,
                   translationText, refinedText, notes, chatHistory,
                   isChatLoading, isRefining, showRefineModal>>

\* generateSummary / translateText: response.text || "", or the exception
\* goes to the caller
SummaryOrThrow(answer) ==
    [threw |-> answer.threw, value |-> Chars(answer.text)]

\* the rest of handleTabChange('summary') after generateSummary ended.  The
\* setters of a display that was unmounted meanwhile change nothing.
SummaryDone(r, answer) ==
    /\ r.kind = "summary"
    /\ requests' = requests \ {r}
    /\ UNCHANGED download
    /\ lastDerived' = Derived(r.inst, r.kind, answer.threw,
                              SummaryOrThrow(answer).threw,
                              SummaryOrThrow(answer).value)
    /\ IF r.inst = display
       THEN /\ summaryText' =
                  IF SummaryOrThrow(answer).threw THEN "Erro resumo."
                  ELSE SummaryOrThrow(answer).value
            /\ isLoadingExtra' = FALSE
       ELSE UNCHANGED <<summaryText, isLoadingExtra>>
    /\ UNCHANGED <<appVars, uploadError, serviceVars, display, activeTab,
                   translationText, refinedText, notes, chatHistory,
                   isChatLoading, isRefining, showRefineModal, remoteCalls>>

\* the rest of handleTabChange('translation') after translateText ended
TranslationDone(r, answer) ==
    /\ r.kind = "translation"
    /\ requests' = requests \ {r}
    /\ UNCHANGED download
    /\ lastDerived' = Derived(r.inst, r.kind, answer.threw,
                              SummaryOrThrow(answer).threw,
                              SummaryOrThrow(answer).value)
    /\ IF r.inst = display
       THEN /\ translationText' =
                  IF SummaryOrThrow(answer).threw THEN "Erro traducao."
                  ELSE SummaryOrThrow(answer).value
            /\ isLoadingExtra' = FALSE
       ELSE UNCHANGED <<translationText, isLoadingExtra>>
    /\ UNCHANGED <<appVars, uploadError, serviceVars, display, activeTab,
                   summaryText, refinedText, notes, chatHistory,
                   isChatLoading, isRefining, showRefineModal, remoteCalls>>

\* the refine button: in the 'transcription' tab, when no extra is loading
RefineButtonRendered ==
    display # 0 /\ activeTab = "transcription" /\ ~isLoadingExtra

\* if (!refinedText)
RefineWanted == Falsy(refinedText)

\* handleRefine up to its await
handleRefine ==
    /\ RefineButtonRendered
    /\ showRefineModal' = TRUE
    /\ IF RefineWanted
       THEN /\ isRefining' = TRUE
            /\ Issue(Request("refine", transcriptionText))
       ELSE UNCHANGED <<isRefining, requests, lastDerived, download, remoteCalls>>
    /\ UNCHANGED <<appVars, uploadError, serviceVars, display, activeTab,
                   summaryText, translationText, refinedText, notes,
                   chatHistory, isLoadingExtra, isChatLoading>>

\* refineText: response.text || text, and text when the request throws
refineText(text, answer) ==
    IF answer.threw \/ Len(answer.text) = 0 THEN text
    ELSE Chars(answer.text)

\* the rest of handleRefine after refineText ended
RefineDone(r, answer) ==
    /\ r.kind = "refine"
    /\ requests' = requests \ {r}
    /\ UNCHANGED download
    /\ lastDerived' = Derived(r.inst, r.kind, answer.threw, FALSE,
                              refineText(r.text, answer))
    /\ IF r.inst = display
       THEN /\ refinedText' = refineText(r.text, answer)
            /\ isRefining' = FALSE
       ELSE UNCHANGED <<refinedText, isRefining>>
    /\ UNCHANGED <<appVars, uploadError, serviceVars, display, activeTab,
                   summaryText, translationText, notes, chatHistory,
                   isLoadingExtra, isChatLoading, showRefineModal,
                   remoteCalls>>

\* the close buttons of the refine modal: setShowRefineModal(false)
closeRefineModal ==
    /\ display # 0
    /\ showRefineModal
    /\ showRefineModal' = FALSE
    /\ UNCHANGED <<appVars, uploadError, serviceVars, display, activeTab,
                   summaryText, translationText, refinedText, notes,
                   chatHistory, isLoadingExtra, isChatLoading, isRefining,
                   remoteCalls, requests, lastDerived, download>>

Message(role, text) == [role |-> role, text |-> text]

\* the chat form: in the 'chat' tab, when no extra is loading
ChatFormRendered == display # 0 /\ activeTab = "chat" /\ ~isLoadingExtra

\* what sendChatMessage sends to the remote capability: a chat created with
\* the context in its system instruction and no history, and the question
\* as its one message
ChatRemoteRequest(history, context, question) ==
    [systemInstruction |-> context, history |-> <<>>, message |-> question]

\* slip: a send is refused only for an empty input
SendRefusedWhenEmpty(chatInput) == Len(Trim(chatInput)) = 0

\* if (!chatInput.trim() || isChatLoading) return;
SendRefused(chatInput) == Len(Trim(chatInput)) = 0 \/ isChatLoading

\* handleSendMessage up to its await; chatInput is what the user typed
handleSendMessage(chatInput) ==
    /\ ChatFormRendered
    /\ IF SendRefused(chatInput)
       THEN UNCHANGED <<chatHistory, isChatLoading, requests, lastDerived, download, remoteCalls>>
       ELSE /\ chatHistory' =
                  Append(chatHistory, Message("user", Chars(chatInput)))
            /\ isChatLoading' = TRUE
            /\ Issue([Request("chat", transcriptionText)
                         EXCEPT !.history = chatHistory,
                                !.question = Chars(chatInput),
                                !.sent = <<ChatRemoteRequest(chatHistory,
                                             transcriptionText,
                                             Chars(chatInput))>>])
    /\ UNCHANGED <<appVars, uploadError, serviceVars, display, activeTab,
                   summaryText, translationText, refinedText, notes,
                   isLoadingExtra, isRefining, showRefineModal>>

\* sendChatMessage: result.text || "Erro no chat.", and the same on a throw
sendChatMessage(history, context, question, answer) ==
    IF answer.threw \/ Len(answer.text) = 0 THEN "Erro no chat."
    ELSE Chars(answer.text)

\* the rest of handleSendMessage after sendChatMessage ended
ChatDone(r, answer) ==
    /\ r.kind = "chat"
    /\ requests' = requests \ {r}
    /\ UNCHANGED download
    /\ lastDerived' = Derived(r.inst, r.kind, answer.threw, FALSE,
                              sendChatMessage(r.history, r.text, r.question,
                                              answer))
    /\ IF r.inst = display
       THEN /\ chatHistory' =
                  Append(chatHistory,
                         Message("model", sendChatMessage(r.history, r.text,
                                                          r.question, answer)))
            /\ isChatLoading' = FALSE
       ELSE UNCHANGED <<chatHistory, isChatLoading>>
    /\ UNCHANGED <<appVars, uploadError, serviceVars, display, activeTab,
                   summaryText, translationText, refinedText, notes,
                   isLoadingExtra, isRefining, showRefineModal, remoteCalls>>

\* handleSearchFocus: the search box takes the focus
handleSearchFocus ==
    /\ display # 0
    /\ activeTab' =
          IF activeTab \in {"summary", "translation", "transcription", "chat"}
          THEN "synced" ELSE activeTab
    /\ UNCHANGED <<appVars, uploadError, serviceVars, display, summaryText,
                   translationText, refinedText, notes, chatHistory,
                   isLoadingExtra, isChatLoading, isRefining, showRefineModal,
                   remoteCalls, requests, lastDerived, download>>

notesUnchanged ==
    UNCHANGED <<appVars, uploadError, serviceVars, display, activeTab,
                summaryText, translationText, refinedText, chatHistory,
                isLoadingExtra, isChatLoading, isRefining, showRefineModal,
                remoteCalls, requests, lastDerived, download>>

\* addNote: a note at currentTime (0: the audio is not played here)
addNote ==
    /\ display # 0
    /\ Len(notes) < MaxNotes
    /\ notes' = Append(notes, [timestamp |-> 0, text |-> ""])
    /\ notesUnchanged

updateNote(index, text) ==
    /\ display # 0
    /\ index \in 1..Len(notes)
    /\ notes' = [notes EXCEPT ![index].text = text]
    /\ notesUnchanged

removeNote(index) ==
    /\ display # 0
    /\ index \in 1..Len(notes)
    /\ notes' = [i \in 1..(Len(notes) - 1) |->
                    IF i < index THEN notes[i] ELSE notes[i + 1]]
    /\ notesUnchanged

(***************************************************************************)
(* TranscriptionDisplay: export.  A string whose characters matter is a    *)
(* sequence of one-character strings.                                      *)
(***************************************************************************)
Digits(n, width) ==
    [i \in 1..width |->
        LET RECURSIVE Pow10(_)
            Pow10(k) == IF k = 0 THEN 1 ELSE 10 * Pow10(k - 1)
        IN  ToString((n \div Pow10(width - i)) % 10)]

\* Date.prototype.toISOString of the date ms milliseconds after the epoch,
\* for the first nine days: "1970-01-0dTHH:MM:SS.mmmZ"
toISOString(ms) ==
    LET day == ms \div 86400000
        inDay == ms % 86400000
    IN  <<"1", "9", "7", "0", "-", "0", "1", "-", "0">> \o Digits(day + 1, 1)
        \o <<"T">> \o Digits(inDay \div 3600000, 2)
        \o <<":">> \o Digits((inDay \div 60000) % 60, 2)
        \o <<":">> \o Digits((inDay \div 1000) % 60, 2)
        \o <<".">> \o Digits(inDay % 1000, 3) \o <<"Z">>

\* String.prototype.substr(start, length)
substr(str, start, length) ==
    SubSeq(str, start + 1, Min(Len(str), start + length))

\* String.prototype.replace with a one-character pattern: the first
\* occurrence is replaced
replace(str, pattern, replacement) ==
    IF \E i \in 1..Len(str) : str[i] = pattern
    THEN LET first == CHOOSE i \in 1..Len(str) :
                         /\ str[i] = pattern
                         /\ \A j \in 1..(i - 1) : str[j] # pattern
         IN  [str EXCEPT ![first] = replacement]
    ELSE str

\* slip: the dot before the milliseconds is kept
formatSRTTimeDot(ms) == substr(toISOString(ms), 11, 12)

\* formatSRTTime, of a time in milliseconds (setMilliseconds of the epoch)
formatSRTTime(ms) == replace(substr(toISOString(ms), 11, 12), ".", ",")

\* the lines of the SRT content: the segments mapped to
\* "i+1 \n start --> end \n text \n" and joined with "\n"
RECURSIVE SrtLines(_, _)
SrtLines(segments, i) ==
    IF i > Len(segments) THEN <<>>
    ELSE <<ToString(i),
           formatSRTTime(segments[i].start) \o <<" ", "-", "-", ">", " ">>
              \o formatSRTTime(segments[i].end),
           segments[i].text,
           "">> \o SrtLines(segments, i + 1)

ExportFormats == {"txt", "json", "srt", "pdf"}

\* handleExport: the content is built and handed to the browser as a file
\* (window.print for 'pdf', and no file)
handleExport(format) ==
    /\ display # 0
    /\ download' =
          CASE format = "pdf" -> download
            [] format = "json" ->
                  <<[ext |-> "json", mime |-> "application/json",
                     content |->
                        [metadata |-> result[1].metadata,
                         category |-> result[1].category,
                         segments |-> result[1].segments,
                         text |-> transcriptionText, notes |-> notes]]>>
            [] format = "srt" ->
                  <<[ext |-> "srt", mime |-> "text/plain",
                     content |-> SrtLines(result[1].segments, 1)]>>
            [] OTHER ->
                  <<[ext |-> "txt", mime |-> "text/plain",
                     content |-> transcriptionText]>>
    /\ UNCHANGED <<appVars, uploadError, serviceVars, displayVars, requests,
                   lastDerived>>

(***************************************************************************)
(* The specification.                                                      *)
(***************************************************************************)
\* FileUpload, App and the acquisition service
Session ==
    \/ \E f \in Files : handleChange(f)
    \/ \E u \in Urls : handleUrlSubmit(u)
    \/ handleReset
    \/ \E c \in calls : AudioFileRead(c)
    \/ \E c \in calls : AudioFileReadFailed(c)
    \/ \E c \in calls, a \in Answers(AudioResponses) : AudioGenerateDone(c, a)
    \/ \E c \in calls, a \in Answers(MetadataResponses) :
          AudioMetadataDone(c, a)
    \/ \E c \in calls, a \in Answers(SearchResponses) : UrlSearchDone(c, a)
    \/ \E c \in calls, a \in Answers(FormatResponses) : UrlFormatDone(c, a)
    \/ \E c \in calls : UrlBackoffElapsed(c)

\* the handlers of a mounted TranscriptionDisplay and the ends of its requests
Display ==
    \/ \E tab \in TabButtons : handleTabChange(tab)
    \/ \E r \in requests, a \in Answers(DerivedResponses) : SummaryDone(r, a)
    \/ handleRefine
    \/ \E r \in requests, a \in Answers(DerivedResponses) : RefineDone(r, a)
    \/ closeRefineModal
    \/ \E q \in ChatInputs : handleSendMessage(q)
    \/ \E r \in requests, a \in Answers(DerivedResponses) : ChatDone(r, a)
    \/ handleSearchFocus
    \/ addNote
    \/ \E i \in 1..MaxNotes, t \in NoteTexts : updateNote(i, t)
    \/ \E i \in 1..MaxNotes : removeNote(i)

\* The session: the user submits, waits and resets; the timer ticks.
Next == Session \/ Tick

Spec == Init /\ [][Next]_vars

\* The ends of what the acquisition awaits: the FileReader fires load or
\* error, every remote request returns or fails, and the timer of the
\* backoff fires.
Responses ==
    \/ \E c \in calls : AudioFileRead(c)
    \/ \E c \in calls : AudioFileReadFailed(c)
    \/ \E c \in calls, a \in Answers(AudioResponses) : AudioGenerateDone(c, a)
    \/ \E c \in calls, a \in Answers(MetadataResponses) :
          AudioMetadataDone(c, a)
    \/ \E c \in calls, a \in Answers(SearchResponses) : UrlSearchDone(c, a)
    \/ \E c \in calls, a \in Answers(FormatResponses) : UrlFormatDone(c, a)
    \/ \E c \in calls : UrlBackoffElapsed(c)

\* A first session failed at the reading of its file and was reset
\* (handleChange of the .mp3 file, AudioFileReadFailed, handleReset).
InitAfterReset ==
    /\ status = IDLE
    /\ file = <<>>
    /\ result = <<>>
    /\ progressNum = 0
    /\ estimatedSeconds = EstimateFor(File(".mp3", FALSE, 5 * BytesPerMB))
    /\ remainingSeconds = EstimateFor(File(".mp3", FALSE, 5 * BytesPerMB))
    /\ errorMessage = NULL
    /\ uploadError = NULL
    /\ calls = {}
    /\ lastCall = [Call(1, "audio", "done") EXCEPT !.outcome = "threw"]
    /\ submissions = 1
    /\ display = 0
    /\ InitialView
    /\ remoteCalls = NoRemoteCalls
    /\ requests = {}
    /\ lastDerived = NoDerived
    /\ download = <<>>

\* The next session when whatever is awaited eventually ends.
SpecLive == InitAfterReset /\ [][Next]_vars /\ WF_vars(Responses)

\* A session completed before the first tick, its display just mounted:
\* from a link (handleUrlSubmit, UrlSearchDone, UrlFormatDone with the answer
\* Plain(DocOk)), or from a file (handleChange, AudioFileRead,
\* AudioGenerateDone with the answer Plain(DocNoSegments), AudioMetadataDone
\* with a thrown answer).
CompletedFromUrl ==
    /\ file = <<>>
    /\ result = <<Transcript(Join(Texts(SegsOk)), "YouTube",
                     [title |-> "Aula", description |-> "Uma aula."],
                     SegsOk, 90)>>
    /\ estimatedSeconds = UrlEstimate
    /\ remainingSeconds = UrlEstimate
    /\ lastCall = [Call(1, "url", "done")
                      EXCEPT !.outcome = "returned", !.attempts = 1,
                             !.searches = 1, !.formats = 1,
                             !.yields = <<Yield(DocOk)>>,
                             !.segments = SegsOk]

CompletedFromFile ==
    /\ file = <<File(".wav", TRUE, 10 * BytesPerMB)>>
    /\ result = <<Transcript("", "Geral",
                     [title |-> "Audio Processado",
                      description |-> "Conteudo transcrito."],
                     <<>>, 100)>>
    /\ estimatedSeconds = EstimateFor(File(".wav", TRUE, 10 * BytesPerMB))
    /\ remainingSeconds = EstimateFor(File(".wav", TRUE, 10 * BytesPerMB))
    /\ lastCall = [Call(1, "audio", "done")
                      EXCEPT !.outcome = "returned", !.generates = 1,
                             !.metadatas = 1, !.category = "Geral",
                             !.raw = Plain(DocNoSegments),
                             !.metadataAnswer = Threw("Failed to fetch")]

InitCompleted ==
    /\ status = COMPLETED
    /\ CompletedFromUrl \/ CompletedFromFile
    /\ progressNum = 0
    /\ errorMessage = NULL
    /\ uploadError = NULL
    /\ calls = {}
    /\ submissions = 1
    /\ display = 1
    /\ InitialView
    /\ remoteCalls = NoRemoteCalls
    /\ requests = {}
    /\ lastDerived = NoDerived
    /\ download = <<>>

\* The completed session: the user works with the display until the reset
\* unmounts it; the requests still in flight then end without effect.
NextDisplay == Display \/ handleReset

SpecDisplay == InitCompleted /\ [][NextDisplay]_vars

\* The session completed from a link, reset with requests in flight, and the
\* session from a link after it: the user asks for the summary, the refinement and the
\* chat from their tabs, resets and submits a link, while the requests end at any time.
\* the requests of this scenario end with a reply or fail
LateAnswers == {Threw("Failed to fetch"), Text(<<Reply>>)}

NextLate ==
    \/ \E tab \in {"transcription", "summary", "chat"} : handleTabChange(tab)
    \/ \E r \in requests, a \in LateAnswers : SummaryDone(r, a)
    \/ handleRefine
    \/ \E r \in requests, a \in LateAnswers : RefineDone(r, a)
    \/ handleSendMessage(<<Question, NewLine>>)
    \/ \E r \in requests, a \in LateAnswers : ChatDone(r, a)
    \/ handleReset
    \/ \E u \in Urls : handleUrlSubmit(u)
    \/ \E c \in calls, a \in Answers(SearchResponses) : UrlSearchDone(c, a)
    \/ \E c \in calls, a \in Answers(FormatResponses) : UrlFormatDone(c, a)
    \/ \E c \in calls : UrlBackoffElapsed(c)

InitLate == InitCompleted /\ CompletedFromUrl

SpecLate == InitLate /\ [][NextLate]_vars

\* A session completed from a file whose transcription answer carried the
\* segments segs (handleChange, AudioFileRead, AudioGenerateDone,
\* AudioMetadataDone with a thrown answer), its display just mounted.
ExportTimes == {0, 65250, 70000, 3599999, 90061001}

MaxSegments == 2

ExportSegments ==
    UNION { [1..n -> {Seg(s, e, T24) : s, e \in ExportTimes}] :
               n \in 0..MaxSegments }

CompletedForExport(segs) ==
    /\ file = <<File(".wav", TRUE, 10 * BytesPerMB)>>
    /\ result = <<Transcript(Join(Texts(segs)), "Aula",
                     [title |-> "Audio Processado",
                      description |-> "Conteudo transcrito."],
                     segs, 100)>>
    /\ estimatedSeconds = EstimateFor(File(".wav", TRUE, 10 * BytesPerMB))
    /\ remainingSeconds = EstimateFor(File(".wav", TRUE, 10 * BytesPerMB))
    /\ lastCall = [Call(1, "audio", "done")
                      EXCEPT !.outcome = "returned", !.generates = 1,
                             !.metadatas = 1, !.category = "Aula",
                             !.segments = segs,
                             !.raw = Plain(Doc("", segs, "Aula", "", "Aula")),
                             !.metadataAnswer = Threw("Failed to fetch")]

InitExport ==
    /\ status = COMPLETED
    /\ \E segs \in ExportSegments : CompletedForExport(segs)
    /\ progressNum = 0
    /\ errorMessage = NULL
    /\ uploadError = NULL
    /\ calls = {}
    /\ submissions = 1
    /\ display = 1
    /\ InitialView
    /\ remoteCalls = NoRemoteCalls
    /\ requests = {}
    /\ lastDerived = NoDerived
    /\ download = <<>>

\* The completed session, exported in each format.
NextExport == \E format \in ExportFormats : handleExport(format)

SpecExport == InitExport /\ [][NextExport]_vars

(***************************************************************************)
(* Properties of the session.                                              *)
(***************************************************************************)
UrlCalls == {c \in calls \cup {lastCall} : c.kind = "url"}

\* an attempt's yield that passes every check of transcribeUrl
GoodYield(y) ==
    /\ y.error # "content_missing"
    /\ y.segments > 0
    /\ y.length >= MinChars

\* C1: the status changes only from Idle to Processing (by a submission),
\* from Processing to Completed (the acquisition returned) or to Error (it
\* threw), and from Completed or Error to Idle (by the reset, which ends no
\* acquisition); no other change of status is a step of the program.
StatusChangesAlongSession ==
    [][status' # status =>
        \/ /\ status = IDLE /\ status' = PROCESSING
           /\ submissions' = submissions + 1
        \/ /\ status = PROCESSING /\ status' = COMPLETED
           /\ lastCall' # lastCall /\ lastCall'.outcome = "returned"
        \/ /\ status = PROCESSING /\ status' = ERROR
           /\ lastCall' # lastCall /\ lastCall'.outcome = "threw"
        \/ /\ status \in {COMPLETED, ERROR} /\ status' = IDLE
           /\ UNCHANGED <<serviceVars>>]_vars

\* a second session failed and was reset after a first one
SecondSessionReset ==
    /\ status = IDLE
    /\ submissions = 2
    /\ lastCall.id = 2
    /\ lastCall.outcome = "threw"

\* C2: a call of transcribeUrl runs the search and the structuring at most
\* maxRetries (2) times each, and a call whose two attempts both yielded a
\* joined text shorter than 50 characters ended by throwing.
UrlAttemptsBounded ==
    \A c \in UrlCalls :
        /\ c.attempts <= maxRetries
        /\ c.searches <= maxRetries
        /\ c.formats <= maxRetries
        /\ (/\ Len(c.yields) = maxRetries
            /\ \A i \in 1..Len(c.yields) :
                  c.yields[i].length \in 0..(MinChars - 1))
           => c.outcome = "threw"

\* both attempts yielded non-empty segments whose text was too short
BothAttemptsShort ==
    /\ lastCall.kind = "url"
    /\ lastCall.outcome = "threw"
    /\ lastCall.attempts = maxRetries
    /\ lastCall.formats = maxRetries
    /\ \A i \in 1..Len(lastCall.yields) :
          /\ lastCall.yields[i].segments > 0
          /\ lastCall.yields[i].length \in 1..(MinChars - 1)

ReturnedSegmentsNonEmpty ==
    /\ lastCall.outcome = "returned" => Len(lastCall.segments) > 0
    /\ result # <<>> => Len(result[1].segments) > 0

\* C5: the display issues the remote derivation of each kind (summary,
\* translation, refinement) at most once, whatever the first call produced.
DerivedCallOncePerKind ==
    \A k \in {"summary", "translation", "refine"} : remoteCalls[k] <= 1

\* C6: while the status is Processing the progress is between 0 and 95
\* per cent (progressNum is the progress times estimatedSeconds).
ProgressWithinCap ==
    status = PROCESSING =>
        /\ estimatedSeconds >= MinEstimate
        /\ 0 <= progressNum
        /\ progressNum <= ProgressCap * estimatedSeconds

\* the timer ticked estimatedSeconds times: the progress stalls at 95 per
\* cent, where the increments alone would have made it 100
ProgressStalled ==
    /\ status = PROCESSING
    /\ remainingSeconds = 0
    /\ progressNum = ProgressCap * estimatedSeconds

ResetClearsSession ==
    [][(status \in {COMPLETED, ERROR}) /\ status' = IDLE =>
          (/\ result' = <<>>
           /\ display' = 0
           /\ FreshView
           /\ errorMessage' = NULL
           /\ progressNum' = 0
           /\ remainingSeconds' = 0)]_vars

\* C10: at most one call of transcribeAudio or transcribeUrl is in flight,
\* and one is in flight exactly while the status is Processing.
OneAcquisitionInFlight ==
    /\ Cardinality(calls) <= 1
    /\ calls # {} <=> status = PROCESSING
    /\ \A c \in calls : c.id = submissions /\ c.outcome = "pending"

\* the acquisition of a second session is in flight, the first one ended
SecondAcquisitionInFlight ==
    /\ submissions = 2
    /\ lastCall.id = 1
    /\ \E c \in calls : c.id = 2

(***************************************************************************)
(* Properties of the derivation operations and of the display.             *)
(***************************************************************************)
\* a request of the mounted display ended in this step
DerivationEnded ==
    /\ Cardinality(requests') < Cardinality(requests)
    /\ display' # 0
    /\ lastDerived'.inst = display'

\* C11: generateSummary, translateText, refineText and sendChatMessage
\* never throw: each ends by returning a string.
DerivationNeverThrows == ~lastDerived.threw

\* C12: when the remote request of a derivation failed, the slot of its
\* view (or the model message appended to the chat) holds the fixed error
\* string of that view: not the input text, not "" and not null.
FailedDerivationShowsFixedError ==
    [][DerivationEnded /\ lastDerived'.failed =>
          CASE lastDerived'.kind = "summary" -> summaryText' = "Erro resumo."
            [] lastDerived'.kind = "translation" ->
                  translationText' = "Erro traducao."
            [] lastDerived'.kind = "refine" ->
                  refinedText' = "Erro ao refinar texto."
            [] lastDerived'.kind = "chat" ->
                  /\ chatHistory' # <<>>
                  /\ chatHistory'[Len(chatHistory')] \in
                        {Message("model", "Erro no chat."),
                         Message("model", "Erro ao processar mensagem.")}]_vars

(***************************************************************************)
(* Properties of the transcripts.                                          *)
(***************************************************************************)
\* the texts of these segments in order, a single space between neighbours
SpaceJoined(segs) ==
    LET upTo[i \in 0..Len(segs)] ==
            IF i = 0 THEN ""
            ELSE IF i = 1 THEN segs[1].text
            ELSE upTo[i - 1] \o " " \o segs[i].text
    IN  upTo[Len(segs)]

\* C13: the text of a transcript returned by transcribeAudio or
\* transcribeUrl is the texts of its segments, in order, joined by single
\* spaces.
TextIsJoinedSegments ==
    result # <<>> => result[1].text = SpaceJoined(result[1].segments)

\* transcribeAudio returned a transcript of two segments
AudioReturnedTwoSegments ==
    /\ status = COMPLETED
    /\ lastCall.kind = "audio"
    /\ Len(result[1].segments) = 2
    /\ result[1].text = T24 \o " " \o T25

\* C14: every segment of a returned transcript has 0 <= start <= end.
SegmentsWellTimed ==
    result # <<>> =>
        \A i \in 1..Len(result[1].segments) :
            /\ 0 <= result[1].segments[i].start
            /\ result[1].segments[i].start <= result[1].segments[i].end

AudioCalls == {c \in calls \cup {lastCall} : c.kind = "audio"}

FallbackMetadata ==
    [title |-> "Audio Processado", description |-> "Conteudo transcrito."]

\* the metadata request threw, or its response text is not JSON
MetadataFailed(answer) ==
    answer.threw \/ (Len(answer.text) > 0 /\ ~JSONparse(answer.text).ok)

MetadataFailureKeepsTranscript ==
    \A c \in AudioCalls :
        (c.pc = "done" /\ c.metadatas = 1) =>
            /\ c.outcome = "returned"
            /\ (MetadataFailed(c.metadataAnswer) /\ status = COMPLETED) =>
                  /\ result[1].metadata = FallbackMetadata
                  /\ result[1].segments = c.segments

\* the metadata request threw after a transcription of two segments
ReturnedWithFallbackMetadata ==
    /\ status = COMPLETED
    /\ lastCall.kind = "audio"
    /\ lastCall.metadataAnswer.threw
    /\ result[1].segments = SegsOk
    /\ result[1].metadata = FallbackMetadata

\* C17 as stated: every call of transcribeAudio issues exactly one
\* transcription request.
AudioRequestedExactlyOnce ==
    \A c \in AudioCalls : c.pc = "done" => c.generates = 1

\* C17 as amended: a call of transcribeAudio issues at most one
\* transcription request (exactly one once the file is read), never a second
\* one, and returns only when that request answered with a text.
AudioRequestedOnce ==
    \A c \in AudioCalls :
        /\ c.generates <= 1
        /\ c.pc \in {"generate", "metadata"} => c.generates = 1
        /\ c.outcome = "returned" => c.generates = 1 /\ Len(c.raw) > 0
        /\ (c.pc = "done" /\ c.generates = 1 /\ Len(c.raw) = 0) =>
              c.outcome = "threw"

\* the one request answered without text and the call failed
AudioFailedWithoutText ==
    /\ status = ERROR
    /\ lastCall.kind = "audio"
    /\ lastCall.generates = 1
    /\ lastCall.outcome = "threw"
    /\ errorMessage = "O modelo nao retornou dados."

\* C18: when transcribeUrl has used its attempts, it throws the same fixed
\* message about public captions, whatever made the attempts fail, and the
\* session shows that message.
UrlFailureMessageFixed ==
    \A c \in UrlCalls :
        c.outcome = "threw" =>
            /\ c.message =
                  "Nao foi possivel extrair a transcricao exata deste video. Verifique se ele possui legendas publicas ou tente outro link."
            /\ (c = lastCall /\ status = ERROR) => errorMessage = c.message

\* the attempts failed for different reasons: a thrown request, then a text
\* that was too short
UrlFailedForMixedCauses ==
    /\ status = ERROR
    /\ lastCall.kind = "url"
    /\ Len(lastCall.yields) = maxRetries
    /\ lastCall.yields[1] = NoYield
    /\ lastCall.lastError = "Texto recuperado muito curto."
    /\ errorMessage # lastCall.lastError

\* C19: a failed acquisition leaves the status Error and a non-empty error
\* message, the message of the failure or else the fallback of the handler;
\* while the status is Processing no error message is stored.
FailureStoresMessage ==
    /\ status = ERROR =>
          /\ lastCall.outcome = "threw"
          /\ errorMessage # NULL
          /\ Len(errorMessage) > 0
          /\ lastCall.message # "" => errorMessage = lastCall.message
          /\ lastCall.message = "" =>
                errorMessage =
                   IF lastCall.kind = "audio"
                   THEN "Ocorreu um erro inesperado ao processar o arquivo."
                   ELSE "Falha ao buscar o video. Verifique o link ou tente novamente."
    /\ (lastCall.outcome = "threw" /\ lastCall.id = submissions) =>
          status \in {ERROR, IDLE}
    /\ status = PROCESSING => errorMessage = NULL

\* the failure carried no message: the fallback is stored
FailureWithoutMessage ==
    /\ status = ERROR
    /\ lastCall.message = ""
    /\ errorMessage = "Ocorreu um erro inesperado ao processar o arquivo."

\* the five link patterns: youtu.be/ID and youtube.com/watch?v=ID, /embed/ID,
\* /v/ID, /shorts/ID, with an ID of 11 characters
MatchesLinkPattern(u) ==
    /\ <<u.host, u.path>> \in
          { <<"youtu.be", "/">>, <<"youtube.com", "/watch?v=">>,
            <<"youtube.com", "/embed/">>, <<"youtube.com", "/v/">>,
            <<"youtube.com", "/shorts/">> }
    /\ u.idLen >= 11

\* C20: the submission of a link that matches none of the five patterns
\* starts no call of transcribeUrl, shows the input error and leaves the
\* status Idle.
UnmatchedUrlRejected ==
    [][(\A u \in Urls :
          (~MatchesLinkPattern(u) /\ handleUrlSubmit(u)) =>
              (/\ status = IDLE
               /\ status' = IDLE
               /\ calls' = calls
               /\ submissions' = submissions
               /\ uploadError' = "Link Invalido."))]_vars

\* a link was refused before any acquisition
UrlRefused ==
    /\ status = IDLE
    /\ submissions = 0
    /\ calls = {}
    /\ uploadError = "Link Invalido."

\* C21: a chosen file starts an acquisition only if its extension is one of
\* the three allow-listed ones; any other file starts none and leaves the
\* status Idle.
OnlyAllowListedFilesAcquired ==
    [][(\A f \in Files :
          (f.ext \notin ALLOWED_EXTENSIONS /\ handleChange(f)) =>
              (/\ status' = IDLE
               /\ calls' = calls
               /\ file' = file))]_vars

\* C22: on entering Processing, estimatedSeconds and remainingSeconds are both
\* max(15, ceil(3 * size in MB)) for a file (30 for a file of 10 MB, 15 for a
\* file of up to 5 MB) and both 20 for a link.
EstimateOnEnteringProcessing ==
    [][(status # PROCESSING /\ status' = PROCESSING) =>
          (/\ remainingSeconds' = estimatedSeconds'
           /\ \A u \in Urls : handleUrlSubmit(u) => estimatedSeconds' = 20
           /\ \A f \in Files : handleChange(f) =>
                 /\ \E n \in 15..40 :
                       /\ estimatedSeconds' = n
                       /\ n * 1048576 >= 3 * f.size
                       /\ n = 15 \/ (n - 1) * 1048576 < 3 * f.size
                 /\ f.size = 10 * 1048576 => estimatedSeconds' = 30
                 /\ f.size <= 5 * 1048576 => estimatedSeconds' = 15)]_vars

\* a file of 10 MB is being processed with an estimate of 30 seconds
TenMegabytesEstimated ==
    /\ status = PROCESSING
    /\ file # <<>>
    /\ file[1].size = 10 * BytesPerMB
    /\ estimatedSeconds = 30
    /\ remainingSeconds = 30

\* the value of a run of digit characters
RECURSIVE DigitsValue(_)
DigitsValue(chars) ==
    IF chars = <<>> THEN 0
    ELSE 10 * DigitsValue(SubSeq(chars, 1, Len(chars) - 1))
         + (CHOOSE d \in 0..9 : ToString(d) = chars[Len(chars)])

\* stamp is HH:MM:SS,mmm, each field of decimal digits, and reads as the
\* time ms of the day
IsSrtStamp(stamp, ms) ==
    /\ Len(stamp) = 12
    /\ stamp[3] = ":" /\ stamp[6] = ":" /\ stamp[9] = ","
    /\ \A i \in {1, 2, 4, 5, 7, 8, 10, 11, 12} :
          \E d \in 0..9 : stamp[i] = ToString(d)
    /\ ms < 86400000 =>
          /\ DigitsValue(SubSeq(stamp, 1, 2)) = ms \div 3600000
          /\ DigitsValue(SubSeq(stamp, 4, 5)) = (ms \div 60000) % 60
          /\ DigitsValue(SubSeq(stamp, 7, 8)) = (ms \div 1000) % 60
          /\ DigitsValue(SubSeq(stamp, 10, 12)) = ms % 1000

\* C23: the SRT export renders segment i, numbered from 1 in segment order,
\* with the timing line HH:MM:SS,mmm --> HH:MM:SS,mmm, each field zero-padded
\* and a comma before the milliseconds; start 65.25 and end 70.0 give
\* 00:01:05,250 --> 00:01:10,000.
SrtTimingLines ==
    (download # <<>> /\ download[1].ext = "srt") =>
        LET segments == result[1].segments
            lines == download[1].content
        IN  /\ Len(lines) = 4 * Len(segments)
            /\ \A i \in 1..Len(segments) :
                  LET timing == lines[4 * i - 2]
                  IN  /\ lines[4 * i - 3] = ToString(i)
                      /\ Len(timing) = 29
                      /\ IsSrtStamp(SubSeq(timing, 1, 12), segments[i].start)
                      /\ SubSeq(timing, 13, 17) = <<" ", "-", "-", ">", " ">>
                      /\ IsSrtStamp(SubSeq(timing, 18, 29), segments[i].end)
                      /\ lines[4 * i - 1] = segments[i].text
                      /\ (segments[i].start = 65250 /\ segments[i].end = 70000)
                            => timing =
                                 <<"0", "0", ":", "0", "1", ":", "0", "5", ",",
                                   "2", "5", "0", " ", "-", "-", ">", " ",
                                   "0", "0", ":", "0", "1", ":", "1", "0", ",",
                                   "0", "0", "0">>

\* two segments were exported as SRT, the second from 65.25 s to 70 s
SrtExported ==
    /\ download # <<>>
    /\ download[1].ext = "srt"
    /\ Len(result[1].segments) = 2
    /\ result[1].segments[2].start = 65250
    /\ result[1].segments[2].end = 70000
    /\ Len(download[1].content) = 8

\* C24: a JSON-bearing response wrapped in a code fence is parsed to the same
\* result as the unwrapped JSON body: the call of transcribeAudio that
\* returned on a fenced document has the segments and the category of the
\* document.
FencedParsedAsUnwrapped ==
    \A doc \in {DocOk, DocNoSegments, DocBackwards} :
        (/\ lastCall.kind = "audio"
         /\ lastCall.outcome = "returned"
         /\ lastCall.raw \in {Plain(doc), Fenced(doc)})
        => (/\ lastCall.segments = doc.segments
            /\ lastCall.category = doc.category)

\* C25: the request of every chat turn to the remote capability carries the
\* canonical transcript text and the full sequence of the chat messages
\* before the turn.
ChatRequestGrounded ==
    \A r \in requests :
        r.kind = "chat" =>
            /\ r.sent[1].systemInstruction = r.text
            /\ r.sent[1].message = r.question
            /\ r.sent[1].history = r.history

\* C26: while a display is mounted, each derived-view slot is written at most
\* once (a slot that holds a value keeps it), and only by the completion of
\* the request of its own kind.
SlotWrittenOnceByOwnKind ==
    [][(display # 0 /\ display' = display) =>
          (/\ summaryText # NULL => summaryText' = summaryText
           /\ translationText # NULL => translationText' = translationText
           /\ refinedText # NULL => refinedText' = refinedText
           /\ summaryText' # summaryText =>
                 DerivationEnded /\ lastDerived'.kind = "summary"
           /\ translationText' # translationText =>
                 DerivationEnded /\ lastDerived'.kind = "translation"
           /\ refinedText' # refinedText =>
                 DerivationEnded /\ lastDerived'.kind = "refine")]_vars

\* C27: while a display is mounted its chat history is append-only: a step
\* leaves it or appends one message, an accepted send appends the user
\* message, the history alternates user, model, ... from a user message, and
\* a reply is pending exactly when the last message is the user's.
ChatHistoryAppendOnly ==
    [][(display # 0 /\ display' = display) =>
          (/\ \/ chatHistory' = chatHistory
              \/ /\ Len(chatHistory') = Len(chatHistory) + 1
                 /\ SubSeq(chatHistory', 1, Len(chatHistory)) = chatHistory
           /\ \A q \in ChatInputs :
                 (handleSendMessage(q) /\ Len(Trim(q)) > 0 /\ ~isChatLoading)
                    => chatHistory' =
                          Append(chatHistory, Message("user", Chars(q)))
           /\ \A i \in 1..Len(chatHistory') :
                 chatHistory'[i].role =
                    IF i % 2 = 1 THEN "user" ELSE "model"
           /\ isChatLoading' <=> (Len(chatHistory') % 2 = 1))]_vars

\* two questions were sent and answered
TwoChatTurns ==
    /\ display # 0
    /\ Len(chatHistory) = 4
    /\ ~isChatLoading
    /\ chatHistory[3].role = "user"
    /\ chatHistory[4].role = "model"

\* C28: when every awaited request eventually returns or fails, a session in
\* Processing eventually is Completed or Error; and a call of transcribeUrl
\* issues at most 2 search requests and 2 structuring requests, a structuring
\* request only when the search request of the same attempt returned text.
ProcessingEnds ==
    /\ (status = PROCESSING) ~> (status \in {COMPLETED, ERROR})
    /\ [](\A c \in UrlCalls :
             /\ c.searches <= 2
             /\ c.formats <= 2
             /\ c.formats <= c.searches
             /\ c.searches = c.attempts)
    /\ [][(\A c \in calls : \A d \in calls' :
             (d.id = c.id /\ d.formats # c.formats) =>
                (/\ c.kind = "url" /\ c.pc = "search"
                 /\ d.formats = c.formats + 1
                 /\ d.searches = c.searches
                 /\ \E a \in Answers(SearchResponses) :
                       /\ ~a.threw
                       /\ Len(a.text) > 0
                       /\ UrlSearchDone(c, a)))]_vars

\* a call of transcribeUrl ended after two searches and two structurings,
\* and the session left Processing
UrlEndedAfterTwoAttempts ==
    /\ status \in {COMPLETED, ERROR}
    /\ calls = {}
    /\ lastCall.kind = "url"
    /\ lastCall.searches = 2
    /\ lastCall.formats = 2

\* C29: in every state a transcript is stored only when the status is
\* Completed, an error message is stored only when the status is Error, and
\* the status is never Uploading.
OutcomeMatchesStatus ==
    /\ result # <<>> => status = COMPLETED
    /\ errorMessage # NULL => status = ERROR
    /\ status # UPLOADING

\* a second session failed after the first was reset: its message is stored
\* and no transcript is
FailedAfterCompleted ==
    /\ status = ERROR
    /\ errorMessage # NULL
    /\ result = <<>>
    /\ lastCall.id = 2
    /\ lastCall.outcome = "threw"

\* C30: the response to a request of a display that was reset changes
\* neither the status nor any view slot or chat history, and every session
\* that completes starts with its derived views absent and its chat history
\* empty.
LateResponseIgnored ==
    /\ [][(/\ Cardinality(requests') < Cardinality(requests)
           /\ lastDerived'.inst # display')
          => UNCHANGED <<appVars, displayVars>>]_vars
    /\ [][(status # COMPLETED /\ status' = COMPLETED) =>
             (/\ display' # 0
              /\ summaryText' = NULL
              /\ translationText' = NULL
              /\ refinedText' = NULL
              /\ chatHistory' = <<>>
              /\ ~isLoadingExtra' /\ ~isChatLoading' /\ ~isRefining')]_vars

\* in the second session a question was sent and answered, and after it the
\* reply to a question of the first session arrived: the history holds the
\* two messages of the second session
LateChatReplyArrived ==
    /\ status = COMPLETED
    /\ display = 2
    /\ Len(chatHistory) = 2
    /\ lastDerived.kind = "chat"
    /\ lastDerived.inst = 1
    /\ requests = {}

=============================================================================
